---------------------------- MODULE Spec2Model ----------------------------
(***************************************************************************)
(* Fluxnova CDC pipeline and external task worker.                         *)
(*                                                                         *)
(*   internal/fluxnova  Client (history queries) and Poller (watermark)    *)
(*   internal/pipeline  Pipeline.poll: one poll-and-publish cycle          *)
(*   internal/kafka     Producer.SendProcess / SendEvent                   *)
(*   demo/worker        fetchAndLock / handleTask / failTask loop          *)
(*                                                                         *)
(* Times are instants in milliseconds.  The engine reports start times in  *)
(* the layout "2006-01-02T15:04:05.000-0700", the layout Poll parses and   *)
(* the client formats the watermark with, so an instant survives the trip  *)
(* through the wire unchanged and is kept as a number.  NoTime stands for  *)
(* the nil *time.Time.                                                     *)
(***************************************************************************)
EXTENDS Integers, Sequences, FiniteSets, TLC

\* ------------------------------------------------------------------ bounds
NumProcs == 2
MaxTime == 2
MaxActs == 1
NumTasks == 2

\* The values of cfg.Pipeline.BatchSize the model runs with.
BatchSizes == {1, 2}

\* Independent worker processes, each running the dispatch loop of main().
Workers == {"w1", "w2"}

Procs == 1..NumProcs
Tasks == 1..NumTasks
Times == 1..MaxTime
NoTime == 0

VARIABLES
    started,        \* engine: start time of each process instance, NoTime = not in the history
    ended,          \* engine: end time of each process instance, NoTime = it has not ended
    batchSize,      \* Poller.batchSize (cfg.Pipeline.BatchSize)
    lastPollTime,   \* Poller.lastPollTime, NoTime = nil
    pc,             \* position of the pipeline loop: idle, build, publish, done
    processes,      \* Poll: the main fetch's response
    idx,            \* Poll: index of the next instance of the range loop
    events,         \* Poll: the events built so far / returned
    pollErr,        \* Poll returned an error in this cycle
    pubIdx,         \* Pipeline.poll: index of the next event to publish
    phase,          \* position of Pipeline.Run: Idle, Connected, Polling, Draining, Stopped
    cancel,         \* ctx: no = not cancelled; inflight = cancelled during this cycle's
                    \* Poll or publish loop; yes = cancelled at another moment
    pingErr,        \* Run: the reachability check returned an error
    runResult,      \* what Run returned: none (still running), nil, error
    tick,           \* Run: the ticker's channel holds a tick
    closed,         \* Producer: the writers Close has been called on, in order
    fetches,        \* history: main fetches of this cycle
    sends,          \* send attempts of this cycle, in order
    subq,           \* history: sub-query failures of this cycle, one entry per event
    cycleWm,        \* history: lastPollTime when the cycle's Poll was called
    everEmitted,    \* history: instances returned by some earlier Poll
    prevEmitted,    \* history: instances returned by the previous cycle's Poll
    prev2Emitted,   \* history: instances returned by the cycle before that
    taskState,      \* engine: each external task: absent, open, locked, completed, failed
    wpc,            \* per worker, position of the dispatch loop: wait, fetchfailed, handle,
                    \* done, stopped (main has returned)
    wcancel,        \* per worker: its ctx is cancelled
    batch,          \* per worker: the tasks of the last fetchAndLock
    widx,           \* per worker: index of the next task of the range loop
    results,        \* history, per worker: what happened to each task handled in this batch
    execCount,      \* history, kept by LeaseSpec: how often each task's handler has
                    \* run: 0, 1, 2 = more than once
    handlerFailed   \* history, kept by LeaseSpec: the tasks whose handler has
                    \* returned an error

pollerVars == <<batchSize, lastPollTime, processes, idx, events, pollErr>>
histVars == <<subq, cycleWm, everEmitted, prevEmitted, prev2Emitted>>
runVars == <<phase, cancel, pingErr, runResult, tick, closed>>
pipelineVars == <<started, ended, pc, pollerVars, pubIdx, sends, histVars, runVars, fetches>>
workerVars == <<taskState, wpc, wcancel, batch, widx, results, execCount, handlerFailed>>
vars == <<pipelineVars, workerVars>>

\* ----------------------------------------------------------------- helpers
Max(a, b) == IF a >= b THEN a ELSE b

RECURSIVE MaxOf(_)
MaxOf(S) == IF S = {} THEN NoTime
            ELSE LET x == CHOOSE y \in S : TRUE IN Max(x, MaxOf(S \ {x}))

EventIds(evs) == {evs[i].ProcessInstanceID : i \in DOMAIN evs}

\* ------------------------------------------------------------------ engine
\* The history endpoint: instances filtered by a lower-bound start time (the
\* instance AT the bound is part of the answer: it "can reappear in a later
\* cycle if its start time exactly equals the watermark boundary"), ordered by
\* start time ascending (equal start times by id), capped at maxResults.
HistoryMatches(req) ==
    {p \in Procs : /\ started[p] # NoTime
                   /\ (req.startedAfter = NoTime \/ started[p] >= req.startedAfter)}

Before(p, q) == started[p] < started[q] \/ (started[p] = started[q] /\ p < q)

\* A duration that is absent (a nil *int64); a duration of 0 is present.
NoDuration == -1

\* The history's entry of an instance: a running one is ACTIVE and has neither
\* end time nor duration, an ended one is COMPLETED and has both.
HistoricProcessInstance(p) ==
    [ID |-> p, StartTime |-> started[p],
     State |-> IF ended[p] = NoTime THEN "ACTIVE" ELSE "COMPLETED",
     EndTime |-> ended[p],
     DurationInMillis |-> IF ended[p] = NoTime THEN NoDuration ELSE ended[p] - started[p]]

RECURSIVE SortByStartTime(_)
SortByStartTime(S) ==
    IF S = {} THEN <<>>
    ELSE LET first == CHOOSE p \in S : \A q \in S \ {p} : Before(p, q)
         IN <<HistoricProcessInstance(first)>> \o SortByStartTime(S \ {first})

Take(s, n) == SubSeq(s, 1, IF Len(s) < n THEN Len(s) ELSE n)

EngineHistoryQuery(req) == Take(SortByStartTime(HistoryMatches(req)), req.maxResults)

\* ------------------------------------------------------------------ client
\* Mutant: the request leaves the startedAfter parameter out.
GetHistoricProcessInstancesFromStart(startedAfter, maxResults) ==
    EngineHistoryQuery([sortBy |-> "startTime", sortOrder |-> "asc",
                        maxResults |-> maxResults, startedAfter |-> NoTime])

\* Mutant: the request asks for the instances after the millisecond of the
\* watermark.
GetHistoricProcessInstancesPastBoundary(startedAfter, maxResults) ==
    EngineHistoryQuery([sortBy |-> "startTime", sortOrder |-> "asc",
                        maxResults |-> maxResults,
                        startedAfter |-> IF startedAfter = NoTime THEN NoTime
                                         ELSE startedAfter + 1])

\* Mutant: the request reaches one millisecond back behind the watermark.
GetHistoricProcessInstancesOverlap(startedAfter, maxResults) ==
    EngineHistoryQuery([sortBy |-> "startTime", sortOrder |-> "asc",
                        maxResults |-> maxResults,
                        startedAfter |-> IF startedAfter = NoTime THEN NoTime
                                         ELSE startedAfter - 1])

\* GetHistoricProcessInstances, lines 1040-1051: sortBy=startTime, sortOrder=asc,
\* maxResults, and startedAfter unless the watermark is nil.
GetHistoricProcessInstances(startedAfter, maxResults) ==
    EngineHistoryQuery([sortBy |-> "startTime", sortOrder |-> "asc",
                        maxResults |-> maxResults, startedAfter |-> startedAfter])

\* Outcomes of the two per-instance sub-queries: -1 is an error, n >= 0 the
\* number of activity instances returned; variables come back as an error, an
\* empty list or a non-empty one.
ActivityResults == -1..MaxActs
VariableResults == {"error", "empty", "some"}

\* ------------------------------------------------------------------ poller
After(t, u) == t > u

\* Mutant: the comparison is the wrong way round.
NextWatermarkIfBefore(last, startTime) ==
    IF last = NoTime \/ After(last, startTime) THEN startTime ELSE last

\* Mutant: only the first start time ever seen is kept.
NextWatermarkFirst(last, startTime) ==
    IF last = NoTime THEN startTime ELSE last

\* Poll, lines 86-91: the watermark moves to a start time after it.
NextWatermark(last, startTime) ==
    IF last = NoTime \/ After(startTime, last) THEN startTime ELSE last

Activities(id, a) == IF a < 0 THEN <<>> ELSE [k \in 1..a |-> <<id, k>>]

\* The engine's history: the start time of an activity instance, the k-th of
\* its process instance, which is after the start of the process instance.
ActivityStartTime(activity) == started[activity[1]] + activity[2]

Variables(v) == IF v = "error" THEN "nil" ELSE v

\* Mutant: the event is built without the end time of the instance.
ProcessEventNoEndTime(proc, a, v) ==
    [ProcessInstanceID |-> proc.ID, State |-> proc.State, StartTime |-> proc.StartTime,
     EndTime |-> NoTime, DurationMillis |-> proc.DurationInMillis,
     Activities |-> Activities(proc.ID, a), Variables |-> Variables(v)]

\* Poll, lines 52-81: the event of one instance of the answer.
ProcessEvent(proc, a, v) ==
    [ProcessInstanceID |-> proc.ID, State |-> proc.State, StartTime |-> proc.StartTime,
     EndTime |-> proc.EndTime, DurationMillis |-> proc.DurationInMillis,
     Activities |-> Activities(proc.ID, a), Variables |-> Variables(v)]

\* Mutant: a checkpoint earlier than the watermark is not taken.
SetCheckpointKeepsLater(t) ==
    /\ pc = "idle"
    /\ phase \in {"Idle", "Connected", "Polling"}
    /\ lastPollTime' = Max(lastPollTime, t)
    /\ UNCHANGED <<started, ended, batchSize, processes, idx, events, pollErr, pc, pubIdx,
                   sends, histVars, runVars, fetches, workerVars>>

\* SetCheckpoint, lines 98-100: the watermark becomes t, whatever it was.  The
\* Poller has no lock, so the call is made between two calls of Poll.
SetCheckpoint(t) ==
    /\ pc = "idle"
    /\ phase \in {"Idle", "Connected", "Polling"}
    /\ lastPollTime' = t
    /\ UNCHANGED <<started, ended, batchSize, processes, idx, events, pollErr, pc, pubIdx,
                   sends, histVars, runVars, fetches, workerVars>>

\* Mutant: Run returns the error of a failed poll.
PollFetchErrEndsRun ==
    /\ pc = "idle"
    /\ (phase = "Connected" \/ (phase = "Polling" /\ tick))
    /\ tick' = (phase = "Connected" /\ tick)
    /\ phase' = "Stopped"
    /\ runResult' = "error"
    /\ fetches' = fetches + 1
    /\ cycleWm' = lastPollTime
    /\ pollErr' = TRUE
    /\ processes' = <<>>
    /\ pc' = "done"
    /\ idx' = 1
    /\ events' = <<>>
    /\ UNCHANGED <<started, ended, batchSize, lastPollTime, pubIdx, sends, subq,
                   everEmitted, prevEmitted, prev2Emitted, cancel, pingErr, closed, workerVars>>

\* Mutant: a failed main fetch clears the watermark.
PollFetchErrResetsWatermark ==
    /\ pc = "idle"
    /\ (phase = "Connected" \/ (phase = "Polling" /\ tick))
    /\ tick' = (phase = "Connected" /\ tick)
    /\ phase' = "Polling"
    /\ fetches' = fetches + 1
    /\ cycleWm' = lastPollTime
    /\ lastPollTime' = NoTime
    /\ pollErr' = TRUE
    /\ processes' = <<>>
    /\ pc' = "done"
    /\ idx' = 1
    /\ events' = <<>>
    /\ UNCHANGED <<started, ended, batchSize, pubIdx, sends, subq,
                   everEmitted, prevEmitted, prev2Emitted, cancel, pingErr, runResult, closed, workerVars>>

\* Poll, lines 41-44: the main fetch fails and Poll returns the error;
\* Pipeline.poll, lines 82-85, returns it to Run, which logs it.
PollFetchErr ==
    /\ pc = "idle"
    /\ (phase = "Connected" \/ (phase = "Polling" /\ tick))
    /\ tick' = (phase = "Connected" /\ tick)
    /\ phase' = "Polling"
    /\ fetches' = fetches + 1
    /\ cycleWm' = lastPollTime
    /\ pollErr' = TRUE
    /\ processes' = <<>>
    /\ pc' = "done"
    /\ idx' = 1
    /\ events' = <<>>
    /\ UNCHANGED <<started, ended, batchSize, lastPollTime, pubIdx, sends, subq,
                   everEmitted, prevEmitted, prev2Emitted, cancel, pingErr, runResult, closed, workerVars>>

\* Mutant: a tick starts a cycle while the previous one is still running.
PollFetchOkReentrant ==
    /\ (phase = "Connected" \/ (phase = "Polling" /\ tick))
    /\ tick' = (phase = "Connected" /\ tick)
    /\ phase' = "Polling"
    /\ fetches' = fetches + 1
    /\ cycleWm' = lastPollTime
    /\ pollErr' = FALSE
    /\ processes' = GetHistoricProcessInstances(lastPollTime, batchSize)
    /\ pc' = IF Len(processes') = 0 THEN "done" ELSE "build"
    /\ idx' = 1
    /\ events' = <<>>
    /\ UNCHANGED <<started, ended, batchSize, lastPollTime, pubIdx, sends, subq,
                   everEmitted, prevEmitted, prev2Emitted, cancel, pingErr, runResult, closed, workerVars>>

\* Mutant: an empty answer moves the watermark to the time of the poll.
PollFetchStampsIdle ==
    /\ pc = "idle"
    /\ (phase = "Connected" \/ (phase = "Polling" /\ tick))
    /\ tick' = (phase = "Connected" /\ tick)
    /\ phase' = "Polling"
    /\ fetches' = fetches + 1
    /\ cycleWm' = lastPollTime
    /\ pollErr' = FALSE
    /\ processes' = GetHistoricProcessInstances(lastPollTime, batchSize)
    /\ pc' = IF Len(processes') = 0 THEN "done" ELSE "build"
    /\ lastPollTime' = IF Len(processes') = 0 THEN MaxTime ELSE lastPollTime
    /\ idx' = 1
    /\ events' = <<>>
    /\ UNCHANGED <<started, ended, batchSize, pubIdx, sends, subq,
                   everEmitted, prevEmitted, prev2Emitted, cancel, pingErr, runResult, closed, workerVars>>

\* Poll, lines 41-50: the main fetch answers; an empty answer returns at once
\* (and Pipeline.poll, lines 87-89, returns without publishing).
PollFetchOk ==
    /\ pc = "idle"
    /\ (phase = "Connected" \/ (phase = "Polling" /\ tick))
    /\ tick' = (phase = "Connected" /\ tick)
    /\ phase' = "Polling"
    /\ fetches' = fetches + 1
    /\ cycleWm' = lastPollTime
    /\ pollErr' = FALSE
    /\ processes' = GetHistoricProcessInstances(lastPollTime, batchSize)
    /\ pc' = IF Len(processes') = 0 THEN "done" ELSE "build"
    /\ idx' = 1
    /\ events' = <<>>
    /\ UNCHANGED <<started, ended, batchSize, lastPollTime, pubIdx, sends, subq,
                   everEmitted, prevEmitted, prev2Emitted, cancel, pingErr, runResult, closed, workerVars>>

\* Mutant: a failed activity sub-query makes Poll return the error.
PollInstanceAbortsOnError ==
    /\ pc = "build"
    /\ \E a \in ActivityResults, v \in VariableResults :
          LET proc == processes[idx]
              event == ProcessEvent(proc, a, v)
          IN IF a < 0
             THEN /\ events' = <<>>
                  /\ subq' = <<>>
                  /\ pollErr' = TRUE
                  /\ pc' = "done"
                  /\ UNCHANGED lastPollTime
             ELSE /\ events' = Append(events, event)
                  /\ subq' = Append(subq, [activities |-> a < 0, variables |-> v = "error"])
                  /\ lastPollTime' = NextWatermark(lastPollTime, proc.StartTime)
                  /\ pc' = IF idx = Len(processes) THEN "publish" ELSE "build"
                  /\ UNCHANGED pollErr
    /\ idx' = idx + 1
    /\ UNCHANGED <<started, ended, batchSize, processes, pubIdx, sends,
                   cycleWm, everEmitted, prevEmitted, prev2Emitted, runVars, fetches, workerVars>>

\* Poll, lines 51-92: one iteration of the range loop; the last one returns.
PollInstance ==
    /\ pc = "build"
    /\ \E a \in ActivityResults, v \in VariableResults :
          LET proc == processes[idx]
              event == ProcessEvent(proc, a, v)
          IN /\ events' = Append(events, event)
             /\ subq' = Append(subq, [activities |-> a < 0, variables |-> v = "error"])
             /\ lastPollTime' = NextWatermark(lastPollTime, proc.StartTime)
    /\ idx' = idx + 1
    /\ pc' = IF idx = Len(processes) THEN "publish" ELSE "build"
    /\ UNCHANGED <<started, ended, batchSize, processes, pollErr, pubIdx, sends,
                   cycleWm, everEmitted, prevEmitted, prev2Emitted, runVars, fetches, workerVars>>

\* ---------------------------------------------------------------- pipeline
\* json.Marshal of a variable mapping.
Marshal(variables) == <<"json", variables>>

\* A send to a stream: the message's key, the fields of the record that is its
\* value, and whether the write worked (ok).  Process instance p has the id
\* <<p, 0>> on the wire, its k-th activity instance the id <<p, k>>.
\* Pipeline.poll, lines 95-108: the process-level record and its send.
ProcessRecord(event, ok) ==
    [stream |-> "processes", key |-> <<event.ProcessInstanceID, 0>>, ok |-> ok,
     _id |-> <<event.ProcessInstanceID, 0>>,
     state |-> event.State, end_time |-> event.EndTime,
     duration_millis |-> event.DurationMillis,
     variables |-> event.Variables,
     _valid_from |-> event.StartTime]

\* Mutant: an activity-level record is valid from its parent's start time.
ActivityRecordParentTime(event, k, ok) ==
    LET activity == event.Activities[k]
        activityRecord == [stream |-> "events", key |-> activity, ok |-> ok,
                           _id |-> activity,
                           _valid_from |-> event.StartTime]
    IN IF event.Variables = "some"
       THEN activityRecord @@ [process_variables |-> Marshal(event.Variables)]
       ELSE activityRecord

\* Pipeline.poll, lines 115-137: the activity-level record and its send; the
\* record gets the field process_variables only for a parent with at least
\* one variable.
ActivityRecord(event, k, ok) ==
    LET activity == event.Activities[k]
        activityRecord == [stream |-> "events", key |-> activity, ok |-> ok,
                           _id |-> activity,
                           _valid_from |-> ActivityStartTime(activity)]
    IN IF event.Variables = "some"
       THEN activityRecord @@ [process_variables |-> Marshal(event.Variables)]
       ELSE activityRecord

\* Mutant: an event's activity records are sent before its process record.
PublishOneActivitiesFirst(event, procOk, oks) ==
    IF ~procOk THEN <<ProcessRecord(event, FALSE)>>
    ELSE [k \in 1..Len(event.Activities) |-> ActivityRecord(event, k, oks[k])]
            \o <<ProcessRecord(event, TRUE)>>

\* Mutant: a process record whose send failed is sent a second time.
PublishOneRetry(event, procOk, oks) ==
    IF ~procOk THEN <<ProcessRecord(event, FALSE), ProcessRecord(event, FALSE)>>
    ELSE <<ProcessRecord(event, TRUE)>>
            \o [k \in 1..Len(event.Activities) |-> ActivityRecord(event, k, oks[k])]

\* The records attempted for one event: the process record, and after a
\* successful process send one record per activity (oks[k]: that send worked).
PublishOne(event, procOk, oks) ==
    IF ~procOk THEN <<ProcessRecord(event, FALSE)>>
    ELSE <<ProcessRecord(event, TRUE)>>
            \o [k \in 1..Len(event.Activities) |-> ActivityRecord(event, k, oks[k])]

\* Mutant: an event with a failed send puts the watermark back to where the
\* cycle started.
PublishEventRollsBack ==
    /\ pc = "publish"
    /\ LET event == events[pubIdx]
       IN \E procOk \in BOOLEAN, oks \in [1..Len(event.Activities) -> BOOLEAN] :
             /\ sends' = sends \o PublishOne(event, procOk, oks)
             /\ lastPollTime' = IF procOk /\ \A k \in DOMAIN oks : oks[k]
                                THEN lastPollTime ELSE cycleWm
    /\ pubIdx' = pubIdx + 1
    /\ pc' = IF pubIdx = Len(events) THEN "done" ELSE "publish"
    /\ UNCHANGED <<started, ended, batchSize, processes, idx, events, pollErr,
                   histVars, runVars, fetches, workerVars>>

\* Pipeline.poll, lines 93-141: one iteration of the loop over the events.
PublishEvent ==
    /\ pc = "publish"
    /\ LET event == events[pubIdx]
       IN \E procOk \in BOOLEAN, oks \in [1..Len(event.Activities) -> BOOLEAN] :
             sends' = sends \o PublishOne(event, procOk, oks)
    /\ pubIdx' = pubIdx + 1
    /\ pc' = IF pubIdx = Len(events) THEN "done" ELSE "publish"
    /\ UNCHANGED <<started, ended, pollerVars, histVars, runVars, fetches, workerVars>>

\* Pipeline.poll returns to Run's loop, which waits for the next tick.
CycleEnd ==
    /\ pc = "done"
    /\ pc' = "idle"
    /\ prev2Emitted' = prevEmitted
    /\ prevEmitted' = EventIds(events)
    /\ everEmitted' = everEmitted \cup EventIds(events)
    /\ processes' = <<>>
    /\ events' = <<>>
    /\ sends' = <<>>
    /\ subq' = <<>>
    /\ idx' = 1
    /\ pubIdx' = 1
    /\ pollErr' = FALSE
    /\ fetches' = 0
    /\ cancel' = IF cancel = "inflight" THEN "yes" ELSE cancel
    /\ UNCHANGED <<started, ended, batchSize, lastPollTime, cycleWm,
                   phase, pingErr, runResult, tick, closed, workerVars>>

\* --------------------------------------------------------------------- run
\* Mutant: Run enters its loop right after the reachability check.
PingOkNoInitialPoll ==
    /\ phase = "Idle"
    /\ phase' = "Polling"
    /\ pingErr' = FALSE
    /\ UNCHANGED <<started, ended, pc, pollerVars, pubIdx, sends, histVars,
                   cancel, runResult, tick, closed, fetches, workerVars>>

\* Run, lines 55-58 and Client.Ping: the engine answers 200 to GET /engine.
PingOk ==
    /\ phase = "Idle"
    /\ phase' = "Connected"
    /\ pingErr' = FALSE
    /\ UNCHANGED <<started, ended, pc, pollerVars, pubIdx, sends, histVars,
                   cancel, runResult, tick, closed, fetches, workerVars>>

\* Mutant: a failed reachability check is logged and Run goes on.
PingErrLogged ==
    /\ phase = "Idle"
    /\ phase' = "Connected"
    /\ pingErr' = TRUE
    /\ UNCHANGED <<started, ended, pc, pollerVars, pubIdx, sends, histVars,
                   cancel, runResult, tick, closed, fetches, workerVars>>

\* Run, lines 55-57: Ping fails (transport error or a status other than 200)
\* and Run returns the wrapped error.
PingErr ==
    /\ phase = "Idle"
    /\ phase' = "Stopped"
    /\ pingErr' = TRUE
    /\ runResult' = "error"
    /\ UNCHANGED <<started, ended, pc, pollerVars, pubIdx, sends, histVars,
                   cancel, tick, closed, fetches, workerVars>>

\* cmd/pipeline main: a shutdown signal cancels ctx, at any moment of Run.
Cancel ==
    /\ cancel = "no"
    /\ phase \notin {"Draining", "Stopped"}
    /\ cancel' = IF pc \in {"build", "publish"} THEN "inflight" ELSE "yes"
    /\ UNCHANGED <<started, ended, pc, pollerVars, pubIdx, sends, histVars,
                   phase, pingErr, runResult, tick, closed, fetches, workerVars>>

\* Mutant: Run returns as soon as it sees the cancellation, without closing
\* the producer.
ShutdownWithoutClose ==
    /\ phase = "Polling"
    /\ pc = "idle"
    /\ cancel # "no"
    /\ phase' = "Stopped"
    /\ runResult' = "nil"
    /\ UNCHANGED <<started, ended, pc, pollerVars, pubIdx, sends, histVars,
                   cancel, pingErr, tick, closed, fetches, workerVars>>

\* Mutant: the select looks at ctx.Done() only when no tick is ready.
ShutdownAfterTicks ==
    /\ phase = "Polling"
    /\ pc = "idle"
    /\ cancel # "no"
    /\ ~tick
    /\ phase' = "Draining"
    /\ UNCHANGED <<started, ended, pc, pollerVars, pubIdx, sends, histVars,
                   cancel, pingErr, runResult, tick, closed, fetches, workerVars>>

\* Run, lines 68-72: the select of the loop takes ctx.Done() (when a tick is
\* ready as well, select takes either case: PollFetchOk and PollFetchErr stay
\* enabled).
Shutdown ==
    /\ phase = "Polling"
    /\ pc = "idle"
    /\ cancel # "no"
    /\ phase' = "Draining"
    /\ UNCHANGED <<started, ended, pc, pollerVars, pubIdx, sends, histVars,
                   cancel, pingErr, runResult, tick, closed, fetches, workerVars>>

\* What closing a writer returns.
CloseResults == {"nil", "error"}

\* Run, line 72, and Producer.Close, lines 74-79: the events writer is closed;
\* its error is returned at once, and only without one the processes writer
\* is closed and its result returned.  Run returns what Close returned.
ProducerClose ==
    /\ phase = "Draining"
    /\ phase' = "Stopped"
    /\ \E e \in CloseResults, p \in CloseResults :
          /\ closed' = IF e = "error" THEN <<"eventsWriter">>
                        ELSE <<"eventsWriter", "processesWriter">>
          /\ runResult' = IF e = "error" THEN "error" ELSE p
    /\ UNCHANGED <<started, ended, pc, pollerVars, pubIdx, sends, histVars,
                   cancel, pingErr, tick, fetches, workerVars>>

\* Run, lines 60 and 73: the ticker, made once the engine has answered, puts a
\* tick into its channel when the poll interval has passed, at whatever place
\* Run is; the channel holds a single tick and a tick that finds it full is
\* dropped.
Tick ==
    /\ phase \in {"Connected", "Polling"}
    /\ ~tick
    /\ tick' = TRUE
    /\ UNCHANGED <<started, ended, pc, pollerVars, pubIdx, sends, histVars,
                   phase, cancel, pingErr, runResult, closed, fetches, workerVars>>

\* A tick that arrives while a cycle runs waits in the channel until the cycle
\* has returned: to the loop it is the same as one that arrives right after the
\* return.
IdleTick == pc = "idle" /\ Tick

\* The engine starts a process instance.  The poller reads the history only in
\* the main fetch, so an instance that starts during a cycle is the same to it
\* as one that starts right after the cycle, and one that starts after Run
\* has left its loop is never looked at.
EngineStart ==
    /\ pc = "idle"
    /\ phase \in {"Idle", "Connected", "Polling"}
    /\ \E p \in Procs, t \in Times :
          /\ started[p] = NoTime
          /\ started' = [started EXCEPT ![p] = t]
    /\ UNCHANGED <<ended, pc, pollerVars, pubIdx, sends, histVars, runVars, fetches, workerVars>>

\* How long after its start an instance may end.
Durations == {0, 1}

\* The engine ends a running process instance, some time after its start.  As
\* for EngineStart, what the poller can see of it is the same whether it
\* happens during a cycle or right after it.
EngineComplete ==
    /\ pc = "idle"
    /\ phase \in {"Idle", "Connected", "Polling"}
    /\ \E p \in Procs, d \in Durations :
          /\ started[p] # NoTime
          /\ ended[p] = NoTime
          /\ ended' = [ended EXCEPT ![p] = started[p] + d]
    /\ UNCHANGED <<started, pc, pollerVars, pubIdx, sends, histVars, runVars, fetches,
                   workerVars>>

\* ------------------------------------------------------------------ worker
WorkerID == "customer-service-worker"
LockTimeout == 30000
MaxTasks == 10

\* main, lines 101-107: the topics the worker subscribes to, in order.
TopicNames == <<"analyze-sentiment", "lookup-customer-profile", "check-churn-signals",
                "decide-routing", "generate-response">>

\* handleTask, lines 167-237: the topics with a case of the switch.
Handlers == {"analyze-sentiment", "lookup-customer-profile", "check-churn-signals",
             "decide-routing", "generate-response"}

\* The engine's external-task endpoint.  Every task belongs to a topic (the
\* tasks of topics nobody subscribes to are never fetched and are left out).
\* fetchAndLock answers with the open tasks of the subscribed topics, at most
\* maxTasks of them, and locks each for the subscription's lock duration;
\* complete and failure are accepted for a task that is locked or whose lock
\* has lapsed (every worker process presents the same WorkerID), and refused
\* for a task that is already resolved.
TopicOf(t) == TopicNames[((t - 1) % Len(TopicNames)) + 1]

ExternalTask(t) == [ID |-> t, TopicName |-> TopicOf(t)]

RECURSIVE SortById(_)
SortById(S) ==
    IF S = {} THEN <<>>
    ELSE LET first == CHOOSE t \in S : \A u \in S : t <= u
         IN <<ExternalTask(first)>> \o SortById(S \ {first})

EngineFetchAndLock(req) ==
    Take(SortById({t \in Tasks :
                      /\ taskState[t] = "open"
                      /\ \E i \in DOMAIN req.topics : req.topics[i].topicName = TopicOf(t)}),
         req.maxTasks)

\* The state of the tasks after the engine locked those of an answer; a lock
\* of no duration is over at once.
EngineLock(tasks, req) ==
    [t \in Tasks |->
        IF /\ \E i \in DOMAIN tasks : tasks[i].ID = t
           /\ \A i \in DOMAIN req.topics :
                 req.topics[i].topicName = TopicOf(t) => req.topics[i].lockDuration > 0
        THEN "locked" ELSE taskState[t]]

EngineAccepts(t) == taskState[t] \in {"locked", "open"}

TaskIds(b) == {b[i].ID : i \in DOMAIN b}

\* Mutant: the subscriptions ask for no lock time.
FetchRequestNoLock ==
    [workerId |-> WorkerID, maxTasks |-> MaxTasks, usePriority |-> TRUE,
     topics |-> [i \in DOMAIN TopicNames |->
                    [topicName |-> TopicNames[i], lockDuration |-> 0]]]

\* fetchAndLock, lines 134-140, with the subscriptions of main, lines 101-107:
\* the request of one tick.
FetchRequest ==
    [workerId |-> WorkerID, maxTasks |-> MaxTasks, usePriority |-> TRUE,
     topics |-> [i \in DOMAIN TopicNames |->
                    [topicName |-> TopicNames[i], lockDuration |-> LockTimeout]]]

\* Mutant: a failed fetchAndLock ends the worker.
FetchErrFatal(w) ==
    /\ wpc[w] = "wait"
    /\ wpc' = [wpc EXCEPT ![w] = "stopped"]
    /\ UNCHANGED <<taskState, batch, widx, results, execCount, handlerFailed, wcancel, pipelineVars>>

\* main, lines 117-122: the tick's fetchAndLock fails, which is logged.
FetchErr(w) ==
    /\ wpc[w] = "wait"
    /\ wpc' = [wpc EXCEPT ![w] = "fetchfailed"]
    /\ UNCHANGED <<taskState, batch, widx, results, execCount, handlerFailed, wcancel, pipelineVars>>

\* Mutant: a tick that arrives while a batch is handled fetches the next one.
FetchOkMidBatch(w) ==
    /\ wpc[w] \in {"wait", "handle"}
    /\ LET tasks == EngineFetchAndLock(FetchRequest)
       IN /\ batch' = [batch EXCEPT ![w] = tasks]
          /\ taskState' = EngineLock(tasks, FetchRequest)
          /\ wpc' = [wpc EXCEPT ![w] = IF Len(tasks) = 0 THEN "wait" ELSE "handle"]
    /\ widx' = [widx EXCEPT ![w] = 1]
    /\ results' = [results EXCEPT ![w] = <<>>]
    /\ UNCHANGED <<execCount, handlerFailed, wcancel, pipelineVars>>

\* main, lines 117-124: the tick's fetchAndLock answers with a batch.
FetchOk(w) ==
    /\ wpc[w] = "wait"
    /\ LET tasks == EngineFetchAndLock(FetchRequest)
       IN /\ batch' = [batch EXCEPT ![w] = tasks]
          /\ taskState' = EngineLock(tasks, FetchRequest)
          /\ wpc' = [wpc EXCEPT ![w] = IF Len(tasks) = 0 THEN "wait" ELSE "handle"]
    /\ widx' = [widx EXCEPT ![w] = 1]
    /\ results' = [results EXCEPT ![w] = <<>>]
    /\ UNCHANGED <<execCount, handlerFailed, wcancel, pipelineVars>>

Count(n) == IF n = 0 THEN 1 ELSE 2

\* What the engine makes of a report that reached it.
Resolve(t, to) == IF EngineAccepts(t) THEN [taskState EXCEPT ![t] = to] ELSE taskState

\* Mutant: a task of a topic without a case is completed with no variables.
HandlerOutcomesDefaultOk(task) == {"ok", "err"}

\* handleTask, lines 167-240: the handler of the task's topic returns a result
\* ("ok") or an error ("err"); a topic without a case runs no handler and is an
\* error of its own ("unknown").
HandlerOutcomes(task) ==
    IF task.TopicName \in Handlers THEN {"ok", "err"} ELSE {"unknown"}

\* The result map a handler returned for a task: that of its topic.
HandlerOutput(task) == task.TopicName

\* The error handleTask returns: the handler's, "unknown topic: ..." or that
\* of completeTask.
ErrorMessage(task, h) ==
    IF h = "err" THEN "handler error"
    ELSE IF h = "unknown" THEN "unknown topic"
    ELSE "complete failed"

\* completeTask, lines 246-249.
CompleteRequest(variables) ==
    [kind |-> "complete", workerId |-> WorkerID, variables |-> variables]

\* Mutant: the failure report leaves the task one retry.
FailureRequestRetry(errorMessage) ==
    [kind |-> "failure", workerId |-> WorkerID, errorMessage |-> errorMessage,
     retries |-> 1, retryTimeout |-> 0]

\* failTask, lines 268-273.
FailureRequest(errorMessage) ==
    [kind |-> "failure", workerId |-> WorkerID, errorMessage |-> errorMessage,
     retries |-> 0, retryTimeout |-> 0]

\* completeTask, lines 245-265: "ok" is a 200 or 204 answer, "err" a transport
\* error or any other status.
CompleteOutcomes(t) ==
    {"err"} \cup (IF EngineAccepts(t) THEN {"ok"} ELSE {})

\* failTask, lines 267-284: the report reaches the engine or it does not; the
\* answer's status is ignored.
FailureOutcomes == {"sent", "lost"}

\* main, lines 124-129, with handleTask, completeTask and failTask: one
\* iteration of the loop over the batch.  h is the handler's result, c that of
\* completeTask after a handler success, f that of failTask after an error of
\* handleTask (the handler's, the unknown topic's, or completeTask's).  The
\* entry of results keeps what the two requests carried: the variables of the
\* completion request ("none" without one), the message and the retries of
\* the failure report ("none" and -1 without one).
HandleOne(w, task, h, c, f) ==
    LET completed == h = "ok" /\ c = "ok"
        state == IF completed THEN Resolve(task.ID, "completed")
                 ELSE IF f = "sent" THEN Resolve(task.ID, "failed")
                 ELSE taskState
    IN /\ results' = [results EXCEPT ![w] = Append(@,
             [task |-> task.ID, handler |-> h,
              complete |-> IF h = "ok" THEN c ELSE "none",
              variables |-> IF h = "ok" THEN CompleteRequest(HandlerOutput(task)).variables
                            ELSE "none",
              failure |-> IF completed THEN "none" ELSE f,
              message |-> IF completed THEN "none"
                          ELSE FailureRequest(ErrorMessage(task, h)).errorMessage,
              retries |-> IF completed THEN -1
                          ELSE FailureRequest(ErrorMessage(task, h)).retries])]
       /\ taskState' = state

\* Mutant: the loop over the batch ends at the first handler error.
HandleStopsOnError(w) ==
    /\ wpc[w] = "handle"
    /\ LET task == batch[w][widx[w]]
       IN \E h \in HandlerOutcomes(task), c \in CompleteOutcomes(task.ID),
             f \in FailureOutcomes :
             /\ HandleOne(w, task, h, c, f)
             /\ wpc' = [wpc EXCEPT ![w] =
                           IF widx[w] = Len(batch[w]) \/ h # "ok" THEN "done" ELSE "handle"]
    /\ widx' = [widx EXCEPT ![w] = @ + 1]
    /\ UNCHANGED <<batch, execCount, handlerFailed, wcancel, pipelineVars>>

\* Mutant: the reports go out for a task of whichever worker's batch.
HandleTaskAnyBatch(w) ==
    /\ wpc[w] = "handle"
    /\ \E v \in Workers :
          /\ widx[w] \in DOMAIN batch[v]
          /\ LET task == batch[v][widx[w]]
             IN \E h \in HandlerOutcomes(task), c \in CompleteOutcomes(task.ID),
                   f \in FailureOutcomes :
                   HandleOne(w, task, h, c, f)
    /\ widx' = [widx EXCEPT ![w] = @ + 1]
    /\ wpc' = [wpc EXCEPT ![w] = IF widx[w] = Len(batch[w]) THEN "done" ELSE "handle"]
    /\ UNCHANGED <<batch, wcancel, pipelineVars>>

\* main, lines 124-129: the range loop goes on to the next task whatever
\* handleTask returned.
HandleTask(w) ==
    /\ wpc[w] = "handle"
    /\ LET task == batch[w][widx[w]]
       IN \E h \in HandlerOutcomes(task), c \in CompleteOutcomes(task.ID),
             f \in FailureOutcomes :
             HandleOne(w, task, h, c, f)
    /\ widx' = [widx EXCEPT ![w] = @ + 1]
    /\ wpc' = [wpc EXCEPT ![w] = IF widx[w] = Len(batch[w]) THEN "done" ELSE "handle"]
    /\ UNCHANGED <<batch, wcancel, pipelineVars>>

Handle(w) == HandleTask(w) /\ UNCHANGED <<execCount, handlerFailed>>

\* The same step, with the runs of each task's handler counted (a task of a
\* topic without a case runs none) and the tasks whose handler returned an
\* error kept.
HandleCounted(w) ==
    /\ HandleTask(w)
    /\ LET task == batch[w][widx[w]]
       IN /\ execCount' = IF task.TopicName \in Handlers
                          THEN [execCount EXCEPT ![task.ID] = Count(@)]
                          ELSE execCount
          /\ handlerFailed' = IF results'[w][widx[w]].handler = "err"
                              THEN handlerFailed \cup {task.ID}
                              ELSE handlerFailed

\* main, lines 112-117: the tick's work is over (the batch is handled, or the
\* fetch had failed); the loop waits for the next tick.
BatchEnd(w) ==
    /\ wpc[w] \in {"done", "fetchfailed"}
    /\ wpc' = [wpc EXCEPT ![w] = "wait"]
    /\ batch' = [batch EXCEPT ![w] = <<>>]
    /\ results' = [results EXCEPT ![w] = <<>>]
    /\ widx' = [widx EXCEPT ![w] = 1]
    /\ UNCHANGED <<taskState, execCount, handlerFailed, wcancel, pipelineVars>>

\* demo/worker main, lines 86-95: a shutdown signal cancels the worker's ctx,
\* at any moment of its loop.
WorkerCancel(w) ==
    /\ ~wcancel[w]
    /\ wpc[w] # "stopped"
    /\ wcancel' = [wcancel EXCEPT ![w] = TRUE]
    /\ UNCHANGED <<taskState, wpc, batch, widx, results, execCount, handlerFailed,
                   pipelineVars>>

\* main, lines 113-116: the select of the loop takes ctx.Done() and main
\* returns (when a tick is ready as well, select takes either case: FetchOk
\* and FetchErr stay enabled).
WorkerReturn(w) ==
    /\ wpc[w] = "wait"
    /\ wcancel[w]
    /\ wpc' = [wpc EXCEPT ![w] = "stopped"]
    /\ UNCHANGED <<taskState, wcancel, batch, widx, results, execCount, handlerFailed,
                   pipelineVars>>

\* The engine: a process reaches an external task; a lock's lease runs out.
TaskCreate(t) ==
    /\ taskState[t] = "absent"
    /\ taskState' = [taskState EXCEPT ![t] = "open"]
    /\ UNCHANGED <<wpc, batch, widx, results, execCount, handlerFailed, wcancel, pipelineVars>>

LeaseExpire(t) ==
    /\ taskState[t] = "locked"
    /\ taskState' = [taskState EXCEPT ![t] = "open"]
    /\ UNCHANGED <<wpc, batch, widx, results, execCount, handlerFailed, wcancel, pipelineVars>>

PipelineInit ==
    /\ started = [p \in Procs |-> NoTime]
    /\ ended = [p \in Procs |-> NoTime]
    /\ lastPollTime = NoTime
    /\ pc = "idle"
    /\ processes = <<>>
    /\ idx = 1
    /\ events = <<>>
    /\ pollErr = FALSE
    /\ pubIdx = 1
    /\ sends = <<>>
    /\ subq = <<>>
    /\ cycleWm = NoTime
    /\ everEmitted = {}
    /\ prevEmitted = {}
    /\ prev2Emitted = {}
    /\ phase = "Idle"
    /\ cancel = "no"
    /\ pingErr = FALSE
    /\ runResult = "none"
    /\ tick = FALSE
    /\ closed = <<>>
    /\ fetches = 0

WorkerInit ==
    /\ taskState = [t \in Tasks |-> "absent"]
    /\ wpc = [w \in Workers |-> "wait"]
    /\ batch = [w \in Workers |-> <<>>]
    /\ widx = [w \in Workers |-> 1]
    /\ results = [w \in Workers |-> <<>>]
    /\ execCount = [t \in Tasks |-> 0]
    /\ handlerFailed = {}
    /\ wcancel = [w \in Workers |-> FALSE]

\* The CDC pipeline (cmd/pipeline) as long as no shutdown signal arrives: the
\* worker is a process of its own and shares no state with it.
Init ==
    /\ PipelineInit
    /\ batchSize \in BatchSizes
    /\ WorkerInit

Next ==
    \/ EngineStart
    \/ PingOk \/ PingErr \/ IdleTick
    \/ PollFetchErr \/ PollFetchOk \/ PollInstance \/ PublishEvent \/ CycleEnd

Spec == Init /\ [][Next]_vars

\* The external task worker (demo/worker), as one or more processes.
WInit ==
    /\ PipelineInit
    /\ batchSize = 1
    /\ WorkerInit

WNext ==
    \/ \E t \in Tasks : TaskCreate(t) \/ LeaseExpire(t)
    \/ \E w \in Workers : FetchErr(w) \/ FetchOk(w) \/ Handle(w) \/ BatchEnd(w)

WorkerSpec == WInit /\ [][WNext]_vars

\* The worker processes with the runs of the handlers counted.
LNext ==
    \/ \E t \in Tasks : TaskCreate(t) \/ LeaseExpire(t)
    \/ \E w \in Workers : FetchErr(w) \/ FetchOk(w) \/ HandleCounted(w) \/ BatchEnd(w)

LeaseSpec == WInit /\ [][LNext]_vars

\* The loop over one fetched batch, for the batches a fetchAndLock answer can
\* decode to: the worker does not check the topic of a task it is handed
\* against its subscriptions, so an answer may carry a topic without a case
\* in handleTask.
UnregisteredTopic == "escalate-ticket"

DispatchBatches ==
    LET entries == [ID : Tasks, TopicName : {TopicNames[1], UnregisteredTopic}]
    IN {<<e>> : e \in entries}
          \cup {b \in entries \X entries : b[1].ID # b[2].ID}

DispatchInit ==
    /\ PipelineInit
    /\ batchSize = 1
    /\ \E b \in DispatchBatches :
          /\ batch = [w \in Workers |-> IF w = "w1" THEN b ELSE <<>>]
          /\ taskState = [t \in Tasks |-> IF t \in TaskIds(b) THEN "locked" ELSE "absent"]
    /\ wpc = [w \in Workers |-> IF w = "w1" THEN "handle" ELSE "wait"]
    /\ widx = [w \in Workers |-> 1]
    /\ results = [w \in Workers |-> <<>>]
    /\ execCount = [t \in Tasks |-> 0]
    /\ handlerFailed = {}
    /\ wcancel = [w \in Workers |-> FALSE]

DispatchNext ==
    \/ \E t \in Tasks : LeaseExpire(t)
    \/ \E w \in Workers : Handle(w) \/ BatchEnd(w)

DispatchSpec == DispatchInit /\ [][DispatchNext]_vars

\* The CDC pipeline with the shutdown signal: Run from its call to its return.
\* The batch size has no part in the life cycle and is kept at one.
RunInit ==
    /\ PipelineInit
    /\ batchSize = 1
    /\ WorkerInit

RunNext == Next \/ Tick \/ Cancel \/ Shutdown \/ ProducerClose

RunSpec == RunInit /\ [][RunNext]_vars

\* The CDC pipeline started on an engine whose history already holds its
\* instances, all of them running; they end while the pipeline polls.  The
\* batch is large enough for the watermark to get past a start time, and the
\* instances are numbered in the order of their start.
HistoryInit ==
    /\ started \in {s \in [Procs -> Times] : \A p, q \in Procs : p < q => s[p] <= s[q]}
    /\ ended = [p \in Procs |-> NoTime]
    /\ batchSize = 2
    /\ lastPollTime = NoTime
    /\ pc = "idle"
    /\ processes = <<>>
    /\ idx = 1
    /\ events = <<>>
    /\ pollErr = FALSE
    /\ pubIdx = 1
    /\ sends = <<>>
    /\ subq = <<>>
    /\ cycleWm = NoTime
    /\ everEmitted = {}
    /\ prevEmitted = {}
    /\ prev2Emitted = {}
    /\ phase = "Idle"
    /\ cancel = "no"
    /\ pingErr = FALSE
    /\ runResult = "none"
    /\ tick = FALSE
    /\ closed = <<>>
    /\ fetches = 0
    /\ WorkerInit

HistoryNext ==
    \/ EngineComplete
    \/ PingOk \/ PingErr \/ IdleTick
    \/ PollFetchErr \/ PollFetchOk \/ PollInstance \/ PublishEvent \/ CycleEnd

HistorySpec == HistoryInit /\ [][HistoryNext]_vars

\* The poller with a caller that restores checkpoints between its polls, on an
\* engine whose history holds its instances from the start.
CheckpointNext ==
    \/ \E t \in Times : SetCheckpoint(t)
    \/ PingOk \/ PingErr \/ IdleTick
    \/ PollFetchErr \/ PollFetchOk \/ PollInstance \/ PublishEvent \/ CycleEnd

CheckpointSpec == HistoryInit /\ [][CheckpointNext]_vars

\* Run, lines 63-66: the poll made before the loop is entered.
InitialPoll == phase = "Connected" /\ (PollFetchOk \/ PollFetchErr)

\* Either program from its start to its return.  The pipeline and the worker
\* are processes of their own that share no state: a behaviour follows one of
\* them, the other having returned (Run on a failed Ping, the worker on a
\* cancellation ahead of its first tick).
PipelineReturned ==
    /\ phase = "Stopped"
    /\ pingErr = TRUE
    /\ runResult = "error"
    /\ started = [p \in Procs |-> NoTime]
    /\ ended = [p \in Procs |-> NoTime]
    /\ lastPollTime = NoTime
    /\ pc = "idle"
    /\ processes = <<>>
    /\ idx = 1
    /\ events = <<>>
    /\ pollErr = FALSE
    /\ pubIdx = 1
    /\ sends = <<>>
    /\ subq = <<>>
    /\ cycleWm = NoTime
    /\ everEmitted = {}
    /\ prevEmitted = {}
    /\ prev2Emitted = {}
    /\ cancel = "no"
    /\ tick = FALSE
    /\ closed = <<>>
    /\ fetches = 0

WorkersReturned ==
    /\ taskState = [t \in Tasks |-> "absent"]
    /\ wpc = [w \in Workers |-> "stopped"]
    /\ wcancel = [w \in Workers |-> TRUE]
    /\ batch = [w \in Workers |-> <<>>]
    /\ widx = [w \in Workers |-> 1]
    /\ results = [w \in Workers |-> <<>>]
    /\ execCount = [t \in Tasks |-> 0]
    /\ handlerFailed = {}

\* One worker process at its start, the other ones having returned.
WorkerStart ==
    /\ taskState = [t \in Tasks |-> "absent"]
    /\ wpc = [w \in Workers |-> IF w = "w1" THEN "wait" ELSE "stopped"]
    /\ wcancel = [w \in Workers |-> w # "w1"]
    /\ batch = [w \in Workers |-> <<>>]
    /\ widx = [w \in Workers |-> 1]
    /\ results = [w \in Workers |-> <<>>]
    /\ execCount = [t \in Tasks |-> 0]
    /\ handlerFailed = {}

StopInit ==
    /\ batchSize = 1
    /\ \/ PipelineInit /\ WorkersReturned
       \/ PipelineReturned /\ WorkerStart

\* The engine's external tasks matter to a worker that runs: once every worker
\* has returned nobody looks at them.
StopNext ==
    \/ RunNext
    \/ /\ \E w \in Workers : wpc[w] # "stopped"
       /\ \E t \in Tasks : TaskCreate(t) \/ LeaseExpire(t)
    \/ \E w \in Workers : FetchErr(w) \/ FetchOk(w) \/ Handle(w) \/ BatchEnd(w)
    \/ \E w \in Workers : WorkerCancel(w) \/ WorkerReturn(w)

StopSpec == StopInit /\ [][StopNext]_vars

\* Either program from its start to its return, for what comes after the
\* cancellation: the engine's history holds its instances from the start
\* (numbered in the order of their start), which has no part in how a loop
\* ends and keeps the behaviours to be looked through few.
ShutdownInit ==
    /\ batchSize = 1
    /\ ended = [p \in Procs |-> NoTime]
    /\ started \in {s \in [Procs -> Times] : \A p, q \in Procs : p < q => s[p] <= s[q]}
    /\ lastPollTime = NoTime
    /\ pc = "idle"
    /\ processes = <<>>
    /\ idx = 1
    /\ events = <<>>
    /\ pollErr = FALSE
    /\ pubIdx = 1
    /\ sends = <<>>
    /\ subq = <<>>
    /\ cycleWm = NoTime
    /\ everEmitted = {}
    /\ prevEmitted = {}
    /\ prev2Emitted = {}
    /\ cancel = "no"
    /\ tick = FALSE
    /\ closed = <<>>
    /\ fetches = 0
    /\ \/ phase = "Idle" /\ pingErr = FALSE /\ runResult = "none" /\ WorkersReturned
       \/ phase = "Stopped" /\ pingErr = TRUE /\ runResult = "error" /\ WorkerStart

ShutdownNext ==
    \/ PingOk \/ PingErr \/ Tick
    \/ PollFetchErr \/ PollFetchOk \/ PollInstance \/ PublishEvent \/ CycleEnd
    \/ Cancel \/ Shutdown \/ ProducerClose
    \/ /\ \E w \in Workers : wpc[w] # "stopped"
       /\ \E t \in Tasks : TaskCreate(t) \/ LeaseExpire(t)
    \/ \E w \in Workers : FetchErr(w) \/ FetchOk(w) \/ Handle(w) \/ BatchEnd(w)
    \/ \E w \in Workers : WorkerCancel(w) \/ WorkerReturn(w)

\* Every remote call that is in flight returns, a select with a ready case
\* takes one, and a select that finds ctx.Done() ready again and again takes
\* it in the end (Go chooses among the ready cases uniformly at random).
FairStopSpec ==
    /\ ShutdownInit
    /\ [][ShutdownNext]_vars
    /\ WF_vars(PingOk \/ PingErr)
    /\ WF_vars(InitialPoll)
    /\ WF_vars(PollInstance)
    /\ WF_vars(PublishEvent)
    /\ WF_vars(CycleEnd)
    /\ SF_vars(Shutdown)
    /\ WF_vars(ProducerClose)
    /\ \A w \in Workers :
          /\ WF_vars(Handle(w))
          /\ WF_vars(BatchEnd(w))
          /\ SF_vars(WorkerReturn(w))

\* Poll cycles keep running and the engine answers: the main fetch succeeds
\* again and again, and a cycle that has started runs to its end.
FairSpec ==
    /\ Spec
    /\ WF_vars(IdleTick)
    /\ SF_vars(PollFetchOk)
    /\ WF_vars(PollInstance)
    /\ WF_vars(PublishEvent)
    /\ WF_vars(CycleEnd)

\* ------------------------------------------------------------------ claims
\* Poll has returned in this cycle (with events, with none, or with an error).
PollReturned == pc \in {"publish", "done"}

\* a is at or after b, the nil time being before every time.
AtOrAfter(a, b) == b = NoTime \/ (a # NoTime /\ a >= b)
StrictlyAfter(a, b) == a # NoTime /\ (b = NoTime \/ a > b)

StartTimes(s) == {s[i].StartTime : i \in DOMAIN s}

\* C1 as stated: the watermark after a cycle is at or after the watermark
\* before it, and strictly after it whenever the cycle returned an instance
\* that no earlier cycle had returned.
C1_StrictOnNewInstance ==
    PollReturned =>
        /\ AtOrAfter(lastPollTime, cycleWm)
        /\ (EventIds(events) \ everEmitted # {}) => StrictlyAfter(lastPollTime, cycleWm)

\* C1 amended: the watermark never decreases from cycle to cycle (nor inside a
\* cycle), and it is strictly greater after a cycle that returned an instance
\* whose start time is later than the watermark the cycle started with.
C1_WatermarkMonotone ==
    /\ AtOrAfter(lastPollTime, cycleWm)
    /\ PollReturned =>
          ((\E i \in DOMAIN events : StrictlyAfter(events[i].StartTime, cycleWm))
              => StrictlyAfter(lastPollTime, cycleWm))

\* C1 witness: a cycle that started from a watermark, returned the instance at
\* it and a later one, and moved the watermark on.
C1_Witness ==
    /\ pc = "done"
    /\ cycleWm # NoTime
    /\ lastPollTime > cycleWm
    /\ \E i \in DOMAIN events : events[i].StartTime = cycleWm

\* C2: a cycle whose main fetch returned no instance returns no event and no
\* error, leaves the watermark as it was and sends no record.
C2_IdleCycleNoOp ==
    (pc = "done" /\ ~pollErr /\ Len(processes) = 0) =>
        /\ events = <<>>
        /\ lastPollTime = cycleWm
        /\ sends = <<>>

\* C2 witness: a cycle whose main fetch answered with no instance has ended.
C2_Witness ==
    /\ pc = "done"
    /\ ~pollErr
    /\ Len(processes) = 0

\* C3: every instance of the main fetch's answer gets exactly one event with
\* its base fields, in every cycle, whatever its sub-queries did; a failed
\* activity sub-query leaves an empty activity sequence; the cycle does not
\* end in an error.
C3_PartialSubQueryResilience ==
    /\ Len(processes) > 0 => ~pollErr
    /\ pc = "build" => Len(events) = idx - 1
    /\ PollReturned => Len(events) = Len(processes)
    /\ Len(subq) = Len(events)
    /\ \A i \in DOMAIN events :
          /\ events[i].ProcessInstanceID = processes[i].ID
          /\ events[i].StartTime = processes[i].StartTime
          /\ subq[i].activities => events[i].Activities = <<>>
          /\ subq[i].variables => events[i].Variables = "nil"

\* C3 witness: a batch of two whose first instance lost both sub-queries and
\* whose second came back with activities.
C3_Witness ==
    /\ pc = "done"
    /\ Len(events) = 2
    /\ subq[1].activities /\ subq[1].variables
    /\ ~subq[2].activities /\ Len(events[2].Activities) > 0

\* C4: every instance that is in the engine's history while the polling loop
\* runs is eventually returned by a poll cycle.
C4_GapFree ==
    \A p \in Procs :
        (started[p] # NoTime /\ phase = "Polling") ~> (p \in everEmitted)

\* C5: no instance is returned by three consecutive cycles.
C5_AtMostTwoConsecutive ==
    ~(/\ pc = "done"
      /\ prev2Emitted \cap prevEmitted \cap EventIds(events) # {})

\* C6 as stated: a cycle returns at most batchSize events, each with a start
\* time strictly after the watermark the cycle started with, in ascending
\* order of start time.
C6_StrictLowerBound ==
    PollReturned =>
        /\ Len(events) <= batchSize
        /\ \A i \in DOMAIN events : StrictlyAfter(events[i].StartTime, cycleWm)
        /\ \A i, j \in DOMAIN events : i < j => events[i].StartTime <= events[j].StartTime

\* C6 amended: a cycle returns at most batchSize events, each with a start
\* time at or after the watermark the cycle started with, in ascending order
\* of start time.
C6_LowerBound ==
    /\ Len(events) <= batchSize
    /\ \A i \in DOMAIN events : AtOrAfter(events[i].StartTime, cycleWm)
    /\ \A i, j \in DOMAIN events : i < j => events[i].StartTime <= events[j].StartTime

\* C6 witness: with batchSize 1, a cycle returned the instance at the watermark
\* while the history held more instances at or after it.
C6_Witness ==
    /\ pc = "done"
    /\ batchSize = 1
    /\ Len(events) = 1
    /\ cycleWm # NoTime
    /\ events[1].StartTime = cycleWm
    /\ Cardinality({p \in Procs : started[p] # NoTime /\ started[p] >= cycleWm}) > 1

\* C7: the instance the previous cycle returned last, the one whose start
\* time is the watermark, is returned again by the next cycle's Poll (the
\* first by id when several share that start time).
C7_BoundaryRedelivery ==
    (PollReturned /\ ~pollErr) =>
        \A p \in prevEmitted :
            (/\ started[p] = cycleWm
             /\ \A q \in Procs : started[q] = cycleWm => p <= q)
                => p \in EventIds(events)

\* C7 witness: the instance at the watermark was returned by the previous cycle
\* and by this one.
C7_DeliveredTwice ==
    /\ pc = "done"
    /\ \E p \in prevEmitted \cap EventIds(events) : started[p] = cycleWm

\* C8: for a non-empty answer P1..Pk of the main fetch, Poll returns k events
\* for P1..Pk in that order, and the watermark is then the larger of the
\* watermark before the cycle and the largest start time of the batch.
C8_PollResult ==
    (PollReturned /\ Len(processes) > 0) =>
        /\ ~pollErr
        /\ Len(events) = Len(processes)
        /\ \A i \in DOMAIN events : events[i].ProcessInstanceID = processes[i].ID
        /\ lastPollTime = Max(cycleWm, MaxOf(StartTimes(processes)))

\* The spec's example: empty watermark, P1 at T0 and P2 at T1 > T0.
C8_Witness ==
    /\ pc = "done"
    /\ cycleWm = NoTime
    /\ Len(events) = 2
    /\ events[1].StartTime < events[2].StartTime
    /\ lastPollTime = events[2].StartTime

\* C9: at the end of a publish cycle every record of every polled event has
\* been handed to the producer: each event's process record and each of its
\* activity records, whatever happened to the other sends.
C9_SiblingRecordsAttempted ==
    pc = "done" =>
        \A i \in DOMAIN events :
            /\ \E s \in DOMAIN sends :
                  /\ sends[s].stream = "processes"
                  /\ sends[s].key = <<events[i].ProcessInstanceID, 0>>
            /\ \A k \in DOMAIN events[i].Activities :
                  \E s \in DOMAIN sends :
                      /\ sends[s].stream = "events"
                      /\ sends[s].key = events[i].Activities[k]

\* C10: when a worker is through with a batch, every task of the batch has
\* been handled, in whatever position a handler error occurred, and each
\* task's report follows from its own handling alone: a completion request
\* after a handler success, a failure report and no completion request after
\* a handler error.
C10_DispatchFailureIsolation ==
    \A w \in Workers :
        wpc[w] = "done" =>
            /\ Len(results[w]) = Len(batch[w])
            /\ \A i \in DOMAIN batch[w] :
                  LET r == results[w][i]
                  IN /\ r.task = batch[w][i].ID
                     /\ r.handler = "ok" => r.complete # "none"
                     /\ r.handler = "err" => (r.complete = "none" /\ r.failure # "none")

\* C10 witness: the first task's handler failed and the second task of the
\* same batch was completed.
C10_Witness ==
    \E w \in Workers :
        /\ wpc[w] = "done"
        /\ Len(batch[w]) = 2
        /\ results[w][1].handler = "err"
        /\ results[w][2].handler = "ok"
        /\ results[w][2].complete = "ok"

\* C11: no task has its handler run more than once, by whatever worker.
C11_NoDoubleExecution ==
    \A t \in Tasks : execCount[t] <= 1

\* C12: every task of a fetched batch was under no lease when it was fetched
\* and is under one, granted by this fetch, right after it: a task is handed
\* to one dispatch loop per lease window.
C12_LeaseExclusivity ==
    [][\A w \in Workers :
          (batch'[w] # batch[w] /\ batch'[w] # <<>>) =>
              \A i \in DOMAIN batch'[w] :
                  /\ taskState[batch'[w][i].ID] = "open"
                  /\ taskState'[batch'[w][i].ID] = "locked"]_vars

\* C12 witness: two dispatch loops hold a batch each at the same time, with
\* every task of both under its lease.
C12_Witness ==
    /\ wpc["w1"] = "handle" /\ wpc["w2"] = "handle"
    /\ TaskIds(batch["w1"]) \cap TaskIds(batch["w2"]) = {}
    /\ \A t \in TaskIds(batch["w1"]) \cup TaskIds(batch["w2"]) : taskState[t] = "locked"

\* C13: for every task of a batch that has been handled: after a handler
\* success a completion request was sent with the handler's output as its
\* variables; after a handler error a failure report was sent with the
\* handler's error as its message and zero retries; and when the loop is
\* through, every task of the batch has been handled.
C13_TaskOutcomeReporting ==
    \A w \in Workers :
        /\ wpc[w] = "done" => Len(results[w]) = Len(batch[w])
        /\ \A i \in DOMAIN results[w] :
              LET r == results[w][i]
                  task == batch[w][i]
              IN /\ r.task = task.ID
                 /\ r.handler = "ok" =>
                       (r.complete # "none" /\ r.variables = HandlerOutput(task))
                 /\ r.handler = "err" =>
                       (r.failure # "none" /\ r.message = "handler error" /\ r.retries = 0)

\* C13 witness: a batch with a task whose handler succeeded and was completed
\* and a task whose handler failed and whose failure report reached the engine.
C13_Witness ==
    \E w \in Workers :
        /\ wpc[w] = "done"
        /\ \E i, j \in DOMAIN results[w] :
              /\ results[w][i].handler = "ok" /\ results[w][i].complete = "ok"
              /\ results[w][j].handler = "err" /\ results[w][j].failure = "sent"

\* C14: a task of a topic without a handler is reported as a failure with
\* zero retries and never completed, no handler is run for it, and the tasks
\* after it in the batch are handled all the same.
C14_UnknownTopic ==
    \A w \in Workers :
        /\ wpc[w] = "done" => Len(results[w]) = Len(batch[w])
        /\ wpc[w] = "handle" => Len(results[w]) = widx[w] - 1
        /\ \A i \in DOMAIN results[w] :
              batch[w][i].TopicName \notin Handlers =>
                  LET r == results[w][i]
                  IN /\ r.task = batch[w][i].ID
                     /\ r.handler = "unknown"
                     /\ r.complete = "none" /\ r.variables = "none"
                     /\ r.failure # "none"
                     /\ r.message = "unknown topic" /\ r.retries = 0

\* C14 witness: the first task of a batch had a topic without a handler and
\* the second was completed.
C14_Witness ==
    \E w \in Workers :
        /\ wpc[w] = "done"
        /\ Len(batch[w]) = 2
        /\ batch[w][1].TopicName \notin Handlers
        /\ results[w][1].failure = "sent"
        /\ results[w][2].complete = "ok"

\* The steps Run's position may take.
PhaseSteps ==
    {<<"Idle", "Connected">>, <<"Connected", "Polling">>, <<"Polling", "Draining">>,
     <<"Draining", "Stopped">>, <<"Idle", "Stopped">>}

\* C15: Run moves along Idle -> Connected -> Polling -> Draining -> Stopped
\* only, or from Idle to Stopped when the reachability check fails; a step of
\* a poll cycle (fetch, event building, publishing, return to the loop) is
\* taken from Connected or Polling only and leaves Run in Polling; once
\* Stopped, the pipeline does nothing more.
C15_OrchestratorLifecycle ==
    [][/\ phase' # phase => <<phase, phase'>> \in PhaseSteps
       /\ (phase = "Idle" /\ phase' = "Stopped") => pingErr'
       /\ (pc' # pc \/ sends' # sends \/ fetches' # fetches \/ events' # events)
             => (phase \in {"Connected", "Polling"} /\ phase' = "Polling")
       /\ phase = "Stopped" => UNCHANGED pipelineVars]_vars

\* C15 witness: Run went through every position: it polled and published an
\* instance, was cancelled, closed the producer and returned.
C15_Witness ==
    /\ phase = "Stopped"
    /\ ~pingErr
    /\ everEmitted # {}

\* C16: when the reachability check fails, Run has returned an error, no poll
\* cycle has run, nothing has been published, the watermark is still absent;
\* and nothing polls before the check.
C16_FatalStartup ==
    /\ [](pingErr =>
            /\ phase = "Stopped"
            /\ runResult = "error"
            /\ pc = "idle" /\ fetches = 0
            /\ events = <<>> /\ sends = <<>> /\ everEmitted = {}
            /\ lastPollTime = NoTime)
    /\ [][phase = "Idle" => UNCHANGED <<pc, fetches, events, sends, lastPollTime>>]_vars

\* C16 witness: the check failed while the engine's history held an instance.
C16_Witness ==
    /\ pingErr
    /\ phase = "Stopped"
    /\ \E p \in Procs : started[p] # NoTime

\* C17: a cycle during which the cancellation arrived ends with every record
\* of every event of its Poll handed to the producer.
C17_InFlightCycleCompletes ==
    (cancel = "inflight" /\ pc = "done") =>
        /\ Len(events) = Len(processes)
        /\ \A i \in DOMAIN events :
              LET handed == {sends[s].key : s \in DOMAIN sends}
              IN /\ <<events[i].ProcessInstanceID, 0>> \in handed
                 /\ \A k \in DOMAIN events[i].Activities :
                       events[i].Activities[k] \in handed

\* C18: a cycle whose main fetch failed made exactly one main fetch, returned
\* no event, published nothing and left Run running; the next step of the loop
\* is the return to the wait for the next tick, from where the next cycle can
\* start (a tick can arrive, or one is there and the fetch can be made), with
\* the watermark as it was.
C18_TransportErrorSurvived ==
    /\ [](pollErr =>
            /\ pc = "done" /\ fetches = 1
            /\ events = <<>> /\ sends = <<>>
            /\ phase = "Polling" /\ runResult = "none")
    /\ [](fetches <= 1)
    /\ []((pc = "idle" /\ phase = "Polling")
            => (ENABLED Tick \/ ENABLED (PollFetchOk \/ PollFetchErr)))
    /\ [][(pollErr /\ pc' # pc) =>
            /\ pc' = "idle" /\ phase' = "Polling" /\ runResult' = "none"
            /\ lastPollTime' = lastPollTime]_vars

\* C18 witness: a fetch failed in a cycle after one that had returned events.
C18_Witness ==
    /\ pollErr
    /\ pc = "done"
    /\ everEmitted # {}

\* C19: while a cycle is building its events, the watermark is the one the
\* cycle started with.
C19_WatermarkDeferred ==
    pc = "build" => lastPollTime = cycleWm

\* The instances whose event has been handed to the publisher: those of
\* earlier cycles, and those of this cycle the publish loop has got to.
HandedToPublisher ==
    everEmitted \cup {events[i].ProcessInstanceID : i \in 1..(pubIdx - 1)}

\* C20: every instance with a start time at or before the watermark has had
\* its event handed to the publisher.
C20_WatermarkBehindDownstream ==
    \A p \in Procs :
        (started[p] # NoTime /\ lastPollTime # NoTime /\ started[p] <= lastPollTime)
            => p \in HandedToPublisher

\* C21: for every task of a batch that has been handled, exactly one of the
\* two reports was sent: a completion request or a failure report, never
\* both, also when the completion request failed.
C21_SingleResolution ==
    \A w \in Workers :
        \A i \in DOMAIN results[w] :
            (results[w][i].complete # "none") # (results[w][i].failure # "none")

\* C22: a task whose handler has returned an error is not handed to a handler
\* again, by whatever dispatch cycle of whatever worker.
C22_SingleAttempt ==
    [][\A t \in Tasks : t \in handlerFailed => execCount'[t] = execCount[t]]_vars

\* C23: once the cancellation signal has been raised, the loop of Run starts
\* no poll cycle any more: from its wait it only goes on to Draining.
C23_NoCycleAfterCancel ==
    [][(cancel # "no" /\ phase = "Polling" /\ pc = "idle") => pc' = "idle"]_vars

\* C24: while a cycle is running, no tick gets into the ticker's channel: a
\* tick that fires then is skipped, and none is kept to start a cycle as soon
\* as the running one has returned.
C24_TickCoalescing ==
    [][(pc # "idle" /\ ~tick) => ~tick']_vars

\* C25: when Run has gone from Draining to Stopped, Close has been called on
\* the events writer and on the processes writer.
C25_ShutdownClosesBoth ==
    (phase = "Stopped" /\ ~pingErr) =>
        {closed[i] : i \in DOMAIN closed} = {"eventsWriter", "processesWriter"}

\* The stream and key of each record a cycle has to send for the events evs:
\* event by event, the process record and then one record per activity.
RECURSIVE RecordsDue(_)
RecordsDue(evs) ==
    IF evs = <<>> THEN <<>>
    ELSE <<[stream |-> "processes", key |-> <<Head(evs).ProcessInstanceID, 0>>]>>
            \o [k \in DOMAIN Head(evs).Activities |->
                   [stream |-> "events", key |-> Head(evs).Activities[k]]]
            \o RecordsDue(Tail(evs))

\* C26: at the end of a cycle in which no send failed, the sends are, event by
\* event in poll order, one record on the processes stream keyed by the
\* process instance id followed by one record on the events stream per
\* activity, keyed by the activity instance id: one send per record, none
\* else, each event's process record before its activity records and before
\* every record of a later event.
C26_PublishOrderAndCount ==
    (pc = "done" /\ \A s \in DOMAIN sends : sends[s].ok) =>
        [s \in DOMAIN sends |-> [stream |-> sends[s].stream, key |-> sends[s].key]]
            = RecordsDue(events)

\* C26 witness: a cycle of two events with an activity each, all four records
\* sent without a failure.
C26_Witness ==
    /\ pc = "done"
    /\ Len(events) = 2
    /\ \A i \in DOMAIN events : Len(events[i].Activities) > 0
    /\ Len(sends) >= 4
    /\ \A s \in DOMAIN sends : sends[s].ok

\* C27: every record sent to the events stream has the field
\* process_variables, whatever the parent's variable mapping is.
C27_VariableSnapshot ==
    \A s \in DOMAIN sends :
        sends[s].stream = "events" => "process_variables" \in DOMAIN sends[s]

\* C28: every record sent has an _id equal to the key of its message and
\* belongs to an entity of this cycle's events: on the processes stream the
\* key is the id of a process instance and _valid_from its start time in the
\* engine's history, on the events stream the key is the id of one of its
\* activity instances and _valid_from that activity instance's start time.
C28_RecordIdentity ==
    \A s \in DOMAIN sends :
        LET r == sends[s]
        IN /\ r._id = r.key
           /\ \E i \in DOMAIN events :
                 IF r.stream = "processes"
                 THEN /\ r.key = <<events[i].ProcessInstanceID, 0>>
                      /\ r._valid_from = started[events[i].ProcessInstanceID]
                 ELSE /\ \E k \in DOMAIN events[i].Activities : r.key = events[i].Activities[k]
                      /\ r._valid_from = ActivityStartTime(r.key)

\* C28 witness: a cycle has sent a process record and an activity record.
C28_Witness ==
    /\ pc = "done"
    /\ \E s, t \in DOMAIN sends :
          sends[s].stream = "processes" /\ sends[t].stream = "events"

\* C29: the publish loop and the return from it leave the watermark as Poll
\* set it, whatever the sends do; a cycle with a failed send ends without an
\* error of Pipeline.poll, with Run still in its loop and not returned, and
\* goes back to the wait for the next tick.
C29_PublishFailureFrame ==
    /\ [][(pc = "publish" \/ pc = "done") => UNCHANGED lastPollTime]_vars
    /\ []((pc = "done" /\ \E s \in DOMAIN sends : ~sends[s].ok) =>
            /\ ~pollErr
            /\ phase = "Polling" /\ runResult = "none"
            /\ ENABLED CycleEnd)

\* C29 witness: a cycle whose Poll moved the watermark on has ended with a
\* failed send.
C29_Witness ==
    /\ pc = "done"
    /\ lastPollTime # cycleWm
    /\ \E s \in DOMAIN sends : ~sends[s].ok

\* C30: a Poll that returned an error has returned no event and has left the
\* watermark at its value before the call.
C30_ErrorLeavesState ==
    pollErr => (events = <<>> /\ lastPollTime = cycleWm)

\* C30 witness: Poll returned an error in a cycle that started with a
\* watermark.
C30_Witness ==
    /\ pollErr
    /\ events = <<>>
    /\ lastPollTime # NoTime

\* C31: the dispatch loop never dies on errors.  A worker's loop is left only
\* from its select and only with its ctx cancelled; a failed fetchAndLock has
\* handled no task and the loop goes back to waiting for the next tick; after
\* a handler error, a failed completion request or a lost failure report the
\* loop goes on with the next task of the batch, and after the last one back
\* to waiting for the next tick.
C31_DispatchLoopSurvives ==
    /\ [][\A w \in Workers :
            (wpc'[w] = "stopped" /\ wpc[w] # "stopped") => (wpc[w] = "wait" /\ wcancel[w])]_vars
    /\ [](\A w \in Workers :
            wpc[w] = "fetchfailed" =>
               /\ batch[w] = <<>>
               /\ results[w] = <<>>
               /\ ENABLED (BatchEnd(w) /\ wpc'[w] = "wait"))
    /\ [](\A w \in Workers : wpc[w] = "handle" => ENABLED Handle(w))
    /\ [](\A w \in Workers : wpc[w] = "done" => ENABLED (BatchEnd(w) /\ wpc'[w] = "wait"))

\* A batch of two is handled to its end: the first task's handler failed and
\* the failure report was lost, the second task's completion request failed.
C31_Witness ==
    \E w \in Workers :
       /\ wpc[w] = "done"
       /\ Len(results[w]) = 2
       /\ results[w][1].handler = "err"
       /\ results[w][1].failure = "lost"
       /\ results[w][2].complete = "err"

\* C32: sequential batch handling.  While a worker is in its loop over a
\* batch, the tasks before its position are the ones handled, in the order of
\* the fetch, each with its completion request or failure report made; the
\* task at its position is the next one, and no fetchAndLock of this worker
\* can be issued before the batch is at its end and the loop back at its wait.
C32_SequentialBatch ==
    \A w \in Workers :
       /\ wpc[w] \in {"handle", "done"} =>
             /\ Len(results[w]) = widx[w] - 1
             /\ \A i \in DOMAIN results[w] :
                   /\ results[w][i].task = batch[w][i].ID
                   /\ (results[w][i].complete # "none" \/ results[w][i].failure # "none")
             /\ ~ENABLED FetchOk(w)
             /\ ~ENABLED FetchErr(w)
       /\ wpc[w] = "handle" => widx[w] \in DOMAIN batch[w]
       /\ wpc[w] = "done" => Len(results[w]) = Len(batch[w])

\* The first task of a batch of two is reported, the second one is next.
C32_Witness ==
    \E w \in Workers :
       /\ wpc[w] = "handle"
       /\ Len(batch[w]) = 2
       /\ widx[w] = 2
       /\ Len(results[w]) = 1

\* C40: reports only for the own batch.  Every report a worker has made in
\* its loop over a batch is for a task of the batch its last fetchAndLock
\* returned, was made with the task's handler having returned (a completion
\* request after a result, a failure report after an error of the handler or
\* of the completion request), and no task the loop has not come to yet has a
\* report.
C40_ReportsOwnBatch ==
    \A w \in Workers :
       \A i \in DOMAIN results[w] :
          /\ results[w][i].task \in TaskIds(batch[w])
          /\ results[w][i].handler \in {"ok", "err"}
          /\ results[w][i].complete # "none" => results[w][i].handler = "ok"
          /\ results[w][i].failure # "none" =>
                (results[w][i].handler = "err" \/ results[w][i].complete = "err")
          /\ \A j \in DOMAIN batch[w] :
                j >= widx[w] => batch[w][j].ID # results[w][i].task

\* A worker has reported a failure and a completion for its batch of two
\* while another worker holds a batch of its own.
C40_Witness ==
    \E w \in Workers, v \in Workers :
       /\ v # w
       /\ batch[v] # <<>>
       /\ wpc[w] = "done"
       /\ Len(results[w]) = 2
       /\ results[w][1].failure = "sent"
       /\ results[w][2].complete = "ok"

\* C33: immediate first cycle.  The loop is entered from Connected only, by
\* the start of a cycle that waits for no tick and takes none; in Connected
\* that cycle can start and nothing else can end the phase; once it is over a
\* further cycle needs a tick; and a cycle whose poll failed has neither made
\* Run return nor left the loop, and goes back to the wait.
C33_ImmediateFirstCycle ==
    /\ [][(phase' = "Polling" /\ phase # "Polling") =>
             (phase = "Connected" /\ pc = "idle" /\ pc' # "idle" /\ fetches' = 1
                /\ tick' = tick)]_vars
    /\ [][(phase = "Connected" /\ phase' # "Connected") => phase' = "Polling"]_vars
    /\ [](phase = "Connected" => (ENABLED InitialPoll /\ ~ENABLED Shutdown))
    /\ []((phase = "Polling" /\ pc = "idle" /\ ~tick) =>
             ~ENABLED (PollFetchOk \/ PollFetchErr))
    /\ []((phase = "Polling" /\ pollErr) =>
             (runResult = "none" /\ ENABLED (CycleEnd /\ phase' = "Polling")))

\* The poll of a cycle failed with no tick in the channel and nothing ever
\* emitted, as after a failed initial poll; Run is in its loop.
C33_Witness ==
    /\ phase = "Polling"
    /\ pc = "done"
    /\ pollErr
    /\ ~tick
    /\ everEmitted = {}
    /\ \E p \in Procs : started[p] # NoTime

\* C34: shutdown terminates.  When every remote call in flight returns, a
\* cancelled Run reaches Stopped and a cancelled worker returns.
C34_ShutdownTerminates ==
    /\ (cancel # "no") ~> (phase = "Stopped")
    /\ \A w \in Workers : wcancel[w] ~> (wpc[w] = "stopped")

\* Run has returned after a cancellation that came while a cycle with events
\* was running, with a tick left in the channel.
C34_Witness ==
    /\ phase = "Stopped"
    /\ cancel = "yes"
    /\ tick
    /\ closed # <<>>
    /\ everEmitted # {}
    /\ \A w \in Workers : wpc[w] = "stopped"

\* C38: cycles never overlap.  A poll-and-publish cycle has made one main
\* fetch, and while it runs no further one can start, with a tick in the
\* channel or without; while a worker is busy with a tick's work (a batch, or
\* a failed fetch) it can issue no fetchAndLock.
C38_NoOverlap ==
    /\ fetches <= 1
    /\ pc # "idle" => (fetches = 1 /\ ~ENABLED (PollFetchOk \/ PollFetchErr))
    /\ pc = "idle" => fetches = 0
    /\ \A w \in Workers :
          wpc[w] \in {"fetchfailed", "handle", "done"} =>
             ~ENABLED (FetchOk(w) \/ FetchErr(w))

\* A cycle is publishing while the next tick is already in the channel.
C38_Witness ==
    /\ phase = "Polling"
    /\ pc = "publish"
    /\ tick
    /\ fetches = 1

\* C39: no publish retry.  The sends of a cycle are for pairwise different
\* records (topic and key), failed ones included, and each of them is for an
\* event Poll returned in this cycle that the publish loop has come to.
C39_NoPublishRetry ==
    /\ \A i \in DOMAIN sends : \A j \in DOMAIN sends :
          i # j => <<sends[i].stream, sends[i].key>> # <<sends[j].stream, sends[j].key>>
    /\ \A i \in DOMAIN sends :
          \E e \in 1..(pubIdx - 1) :
             /\ e \in DOMAIN events
             /\ events[e].ProcessInstanceID = sends[i].key[1]

\* A cycle is over in which a send failed for an instance the previous cycle
\* had emitted as well.
C39_Witness ==
    /\ pc = "done"
    /\ \E i \in DOMAIN sends :
          /\ ~sends[i].ok
          /\ sends[i].key[1] \in prevEmitted

C35_CheckpointRestore ==
    /\ [][(~ \E t \in Times : SetCheckpoint(t)) => AtOrAfter(lastPollTime', lastPollTime)]_vars
    /\ []((pc = "idle" /\ phase \in {"Idle", "Connected", "Polling"}) =>
            \A t \in Times : ENABLED (SetCheckpoint(t) /\ lastPollTime' = t))
    /\ []((PollReturned /\ ~pollErr) =>
            /\ processes = EngineHistoryQuery([sortBy |-> "startTime", sortOrder |-> "asc",
                                               maxResults |-> batchSize,
                                               startedAfter |-> cycleWm])
            /\ EventIds(events) = {processes[i].ID : i \in DOMAIN processes})
    /\ [](pc # "idle" => AtOrAfter(lastPollTime, cycleWm))

\* A replay: a poll that started from a restored checkpoint has returned an
\* instance again that an earlier poll had returned and that started after
\* the checkpoint.
C35_Witness ==
    /\ pc = "done"
    /\ cycleWm # NoTime
    /\ \E p \in everEmitted \cap EventIds(events) : started[p] > cycleWm

=============================================================================
